---- MODULE Spec2Model ----
(***************************************************************************)
(* TripSpark Recommendation composite service (src/main.py).               *)
(*                                                                         *)
(* State: the in-memory job registry `tasks` (a dict of dict objects), the *)
(* background pipelines scheduled through BackgroundTasks, and the handler *)
(* currently running on the event loop.  The three HTTP handlers are       *)
(* `async def` without an await, so the event loop runs one handler at a   *)
(* time; the background pipelines are plain functions and run in worker    *)
(* threads, interleaved with the handlers and with each other.  Each       *)
(* engine call starts two threads (user branch, catalog branch) and joins  *)
(* both.                                                                   *)
(*                                                                         *)
(* Python dicts are functions over string keys; a missing key is a key     *)
(* outside DOMAIN.  Floats are scaled integers: progress is in tenths,     *)
(* scores are multiplied by ScoreScale.                                    *)
(***************************************************************************)
EXTENDS Integers, Sequences, FiniteSets, TLC

VARIABLES tasks, heap, bg, loop

vars == <<tasks, heap, bg, loop>>

\* ------------------------------------------------------------------ bounds
\* number of asynchronous submissions that are accepted in one behaviour
MaxTasks == 1

\* length of the freely chosen end of a candidate list
MaxTail == 3

\* ------------------------------------------------------- python primitives
\* Python None where a string is expected
NoneStr == "None"

\* the empty dict {}
EmptyDict == <<>>

\* d.get(k, default)
Get(d, k, default) == IF k \in DOMAIN d THEN d[k] ELSE default

\* d[k] = v
Put(d, k, v) == [x \in DOMAIN d \cup {k} |-> IF x = k THEN v ELSE d[x]]

\* d.get(k) for a value that is not a string: <<>> is None, <<v>> is v
Opt(d, k) == IF k \in DOMAIN d THEN <<d[k]>> ELSE <<>>

\* truthiness of an optional string: None and "" are falsy
Truthy(s) == s # NoneStr /\ s # ""

\* set(list)
ToSet(s) == {s[i] : i \in 1..Len(s)}

\* ---------------------------------------------------------------- inputs
UserIds == {"u1"}

\* raw fragments of the comma-joined `vibes` query parameter and str.strip
Strip(f) == CASE f = " art" -> "art"
              [] f = "history " -> "history"
              [] f = " coffee" -> "coffee"
              [] f = " " -> ""
              [] OTHER -> f

\* [vibe.strip() for vibe in vibes.split(",")] if vibes else []
\* the query string is given by its comma-separated fragments; the empty
\* string is the empty sequence of fragments
ParseVibes(frags) == [i \in 1..Len(frags) |-> Strip(frags[i])]

\* query parameters of a request: destination, vibes, budget
RequestInputs ==
    { [destination |-> NoneStr, vibes |-> <<>>, budget |-> NoneStr],
      [destination |-> "paris", vibes |-> <<" art">>, budget |-> "low"] }

\* ------------------------------------------------------ upstream services
\* what one upstream HTTP call can come back with: a 200, any other status,
\* a transport failure or timeout (requests.exceptions.RequestException)
Http200 == "200"
HttpOther == "non200"
Transport == "transport"
\* a 200 whose JSON body is not an object (GET /pois only)
Malformed == "malformed"

UserResponses == {Http200, HttpOther, Transport}
PrefsResponses == {Http200, HttpOther, Transport}
PoisResponses == {Http200, HttpOther, Transport, Malformed}
CityResponses == {Http200, HttpOther, Transport}

\* documents the upstream services serve
UserDoc(user_id) == [id |-> user_id]
PrefsDoc(user_id) == [interests |-> <<"art">>]
CityDoc(city) == [name |-> city]
NoneDoc == [none |-> TRUE]

Poi1 == [id |-> "p1", tags |-> <<"art", "museum">>, budget |-> "low", rating |-> 4]
Poi2 == [id |-> "p2", tags |-> <<>>, budget |-> "high"]
Poi3 == [id |-> "p3", tags |-> <<"art">>, budget |-> "high", rating |-> 4]
Poi4 == [id |-> "p4", tags |-> <<"zoo">>, budget |-> "high", rating |-> 4]

\* GET /pois?city=&tags=&budget= answers with the same candidates whatever
\* the filter; the filter is the Catalog service's business
PoisDoc(city, tags, budget) == <<Poi2, Poi3, Poi4, Poi1>>

\* --------------------------------------------------------- upstream clients
\* an HTTPException(status_code, detail)
HTTPException(code, detail) == [type |-> "HTTPException", status_code |-> code, detail |-> detail]

\* str(e)
Str(e) == IF e.type = "HTTPException" THEN <<e.status_code, e.detail>> ELSE <<0, e.type>>

Return(v) == [raised |-> FALSE, value |-> v]
Raise(e) == [raised |-> TRUE, exc |-> e]

\* UserServiceClient.get_user
get_user(user_id, resp) ==
    CASE resp = Http200 -> Return(UserDoc(user_id))
      [] resp = Transport -> Raise(HTTPException(503, "User service unavailable"))
      [] OTHER -> Raise(HTTPException(404, "User not found"))

\* get_user_preferences without its `except RequestException`
get_user_preferences_raises(user_id, resp) ==
    CASE resp = Http200 -> Return(PrefsDoc(user_id))
      [] resp = Transport -> Raise([type |-> "ConnectionError"])
      [] OTHER -> Return(EmptyDict)

\* UserServiceClient.get_user_preferences
get_user_preferences(user_id, resp) ==
    IF resp = Http200 THEN Return(PrefsDoc(user_id)) ELSE Return(EmptyDict)

\* CatalogServiceClient.get_pois
get_pois(city, tags, budget, resp) ==
    CASE resp = Http200 -> Return(PoisDoc(city, tags, budget))
      [] resp = Malformed -> Raise([type |-> "AttributeError"])
      [] OTHER -> Return(<<>>)

\* CatalogServiceClient.get_city_info
get_city_info(city, resp) ==
    IF resp = Http200 THEN Return(CityDoc(city)) ELSE Return(NoneDoc)

\* ------------------------------------------------------------------ scoring
\* scores are kept multiplied by ScoreScale, the divisor of the rating term
ScoreScale == 5
\* pois[:10]
ScanLimit == 10
\* recommendations[:5]
TopN == 5

Min(a, b) == IF a < b THEN a ELSE b

\* s[:n]
Take(s, n) == SubSeq(s, 1, Min(n, Len(s)))

\* the loop body of _compute_recommendations for one poi: the score, times
\* ScoreScale, and the tags that matched the request's vibes
poi_score(poi, vibes, budget, user_prefs) ==
    LET poi_tags == Get(poi, "tags", <<>>)
        matching_tags == ToSet(poi_tags) \cap ToSet(vibes)
        user_interests == Get(user_prefs, "interests", <<>>)
        matching_interests == ToSet(poi_tags) \cap ToSet(user_interests)
    IN  Cardinality(matching_tags) * 2 * ScoreScale
        + (IF Truthy(budget) /\ Get(poi, "budget", NoneStr) = budget
           THEN 3 * ScoreScale ELSE 0)
        + Cardinality(matching_interests) * ScoreScale
        + Get(poi, "rating", 0) * 2

\* the dict appended for a poi whose score is positive
recommendation_entry(poi, vibes, budget, user_prefs) ==
    [poi_id |-> Opt(poi, "id"),
     name |-> Opt(poi, "name"),
     budget |-> Opt(poi, "budget"),
     rating |-> Opt(poi, "rating"),
     score |-> poi_score(poi, vibes, budget, user_prefs),
     matching_tags |-> ToSet(Get(poi, "tags", <<>>)) \cap ToSet(vibes)]

\* list.sort(key=score, reverse=True): stable, equal scores keep their order
InsertByScore(sorted, r) ==
    LET k == Cardinality({i \in 1..Len(sorted) : sorted[i].score >= r.score})
    IN  SubSeq(sorted, 1, k) \o <<r>> \o SubSeq(sorted, k + 1, Len(sorted))

RECURSIVE SortByScoreDesc(_)
SortByScoreDesc(s) ==
    IF s = <<>> THEN <<>>
    ELSE InsertByScore(SortByScoreDesc(SubSeq(s, 1, Len(s) - 1)), s[Len(s)])

\* the entries of the pois with a positive score, in input order
RECURSIVE ScoredEntries(_, _, _, _)
ScoredEntries(pois, vibes, budget, user_prefs) ==
    IF pois = <<>> THEN <<>>
    ELSE LET rest == ScoredEntries(Tail(pois), vibes, budget, user_prefs)
         IN  IF poi_score(Head(pois), vibes, budget, user_prefs) > 0
             THEN <<recommendation_entry(Head(pois), vibes, budget, user_prefs)>> \o rest
             ELSE rest

\* RecommendationEngine._compute_recommendations
compute_recommendations(data, vibes, budget) ==
    LET user_prefs == Get(data, "user_preferences", EmptyDict)
        pois == Get(data, "pois", <<>>)
    IN  Take(SortByScoreDesc(ScoredEntries(Take(pois, ScanLimit), vibes, budget, user_prefs)), TopN)

\* ------------------------------------------------------- fan-out coordinator
\* the locals of one call of RecommendationEngine.generate_recommendations
\* with its two threads: upc and cpc are the positions of fetch_user_data and
\* fetch_catalog_data, calls the upstream calls issued so far with what each
\* came back with
NewRun(user_id, destination, vibes, budget) ==
    [user_id |-> user_id, destination |-> destination, vibes |-> vibes, budget |-> budget,
     upc |-> "get_user", cpc |-> "get_pois",
     results |-> EmptyDict, errors |-> EmptyDict, calls |-> EmptyDict]

\* the responses the next upstream call of each thread can come back with
UserBranchResponses(run) == IF run.upc = "get_user" THEN UserResponses ELSE PrefsResponses
CatalogBranchResponses(run) == IF run.cpc = "get_pois" THEN PoisResponses ELSE CityResponses

\* one upstream call of fetch_user_data, with what follows it in the thread
fetch_user_data(run, resp) ==
    IF run.upc = "get_user"
    THEN LET r == get_user(run.user_id, resp)
         IN  IF r.raised
             THEN [run EXCEPT !.errors = Put(@, "user", Str(r.exc)),
                              !.calls = Put(@, "get_user", resp),
                              !.upc = "done"]
             ELSE [run EXCEPT !.results = Put(@, "user", r.value),
                              !.calls = Put(@, "get_user", resp),
                              !.upc = "get_prefs"]
    ELSE LET r == get_user_preferences(run.user_id, resp)
         IN  IF r.raised
             THEN [run EXCEPT !.errors = Put(@, "user", Str(r.exc)),
                              !.calls = Put(@, "get_prefs", resp),
                              !.upc = "done"]
             ELSE [run EXCEPT !.results = Put(@, "preferences", r.value),
                              !.calls = Put(@, "get_prefs", resp),
                              !.upc = "done"]

\* one upstream call of fetch_catalog_data, with what follows it in the thread
fetch_catalog_data(run, resp) ==
    IF run.cpc = "get_pois"
    THEN LET r == get_pois(run.destination, run.vibes, run.budget, resp)
         IN  IF r.raised
             THEN [run EXCEPT !.errors = Put(@, "catalog", Str(r.exc)),
                              !.calls = Put(@, "get_pois", resp),
                              !.cpc = "done"]
             ELSE [run EXCEPT !.results = Put(@, "pois", r.value),
                              !.calls = Put(@, "get_pois", resp),
                              !.cpc = IF Truthy(run.destination) THEN "get_city" ELSE "done"]
    ELSE LET r == get_city_info(run.destination, resp)
         IN  IF r.raised
             THEN [run EXCEPT !.errors = Put(@, "catalog", Str(r.exc)),
                              !.calls = Put(@, "get_city", resp),
                              !.cpc = "done"]
             ELSE [run EXCEPT !.results = Put(@, "city_info", r.value),
                              !.calls = Put(@, "get_city", resp),
                              !.cpc = "done"]

\* only user_thread.join()
Joined_userOnly(run) == run.upc = "done"

\* user_thread.join(); catalog_thread.join()
Joined(run) == run.upc = "done" /\ run.cpc = "done"

\* `if 'user' in errors:`
HasErrors_userOnly(run) == "user" \in DOMAIN run.errors

\* if errors:
HasErrors(run) == DOMAIN run.errors # {}

\* generate_recommendations after the join: the error check, scoring and the
\* combined payload
generate_recommendations(run) ==
    IF HasErrors(run)
    THEN Raise(HTTPException(500, run.errors))
    ELSE Return([user_data |-> Get(run.results, "user", EmptyDict),
                 user_preferences |-> Get(run.results, "preferences", EmptyDict),
                 catalog_data |-> [pois |-> Get(run.results, "pois", <<>>),
                                   city_info |-> Get(run.results, "city_info", EmptyDict)],
                 recommendations |-> compute_recommendations(run.results, run.vibes, run.budget)])

\* ------------------------------------------------------------- job registry
\* progress values, in tenths
ProgressScale == 10

\* datetime.now().isoformat(): the clock is not part of the model
Now == "now"

\* the dict objects written to tasks[task_id]
AcceptedEntry == [status |-> "accepted", progress |-> 0]

\* a first write that leaves the status as it was
ProcessingEntry_accepted == [status |-> "accepted", progress |-> 1]

ProcessingEntry == [status |-> "processing", progress |-> 1]

\* a terminal write without the progress
CompletedEntry_noProgress(result) ==
    [status |-> "completed", result |-> result, completed_at |-> Now]

CompletedEntry(result) ==
    [status |-> "completed", progress |-> ProgressScale, result |-> result, completed_at |-> Now]

FailedEntry(e) == [status |-> "failed", error |-> Str(e), failed_at |-> Now]

\* tasks maps a task id to a reference to a dict object, heap maps the
\* reference to the object.  The k-th dict object built for task j is <<j, k>>.
NextRef(t, task_id) == <<task_id, t[task_id][2] + 1>>

\* the dict object tasks[task_id]
Entry(task_id) == heap[tasks[task_id]]

\* str(uuid.uuid4()): an identifier no earlier submission was given
FreshTaskId(t) == Cardinality(DOMAIN t) + 1

TaskIds == 1..MaxTasks

\* identifiers a client may poll: 0 is never handed out
PollIds == 0..MaxTasks

\* ------------------------------------------------------------ event loop
NoResp == [code |-> 0]

Idle == [op |-> "idle", pc |-> "idle", local |-> EmptyDict, resp |-> NoResp]

\* objects no name refers to any more are freed: the registry and the `task`
\* local of a running status query are the only references
Collect(h, t, l) ==
    LET live == {t[j] : j \in DOMAIN t}
                \cup (IF "ref" \in DOMAIN l.local THEN {l.local.ref} ELSE {})
    IN  [r \in (DOMAIN h) \cap live |-> h[r]]

\* the submission's response has left the server: Starlette runs the
\* background tasks of a response after sending it
ResponseSent(task_id) ==
    ~(loop.op = "submit" /\ loop.pc = "responded" /\ Get(loop.local, "task_id", 0) = task_id)

Init ==
    /\ tasks = EmptyDict
    /\ heap = EmptyDict
    /\ bg = EmptyDict
    /\ loop = Idle

\* ------------------------------------------------- start_async_recommendations
\* `destination or "general"`
DestinationArg(destination) == IF Truthy(destination) THEN destination ELSE "general"

\* the arguments handed to background_tasks.add_task; query is the request
\* the task was scheduled for
ScheduledTask(user_id, inp) ==
    [pc |-> "scheduled", user_id |-> user_id, query |-> inp,
     destination |-> DestinationArg(inp.destination),
     vibes |-> ParseVibes(inp.vibes), budget |-> inp.budget]

\* a submission that goes on whatever the user check met
UserCheckPassed_ignored(r) == TRUE

\* try: user_client.get_user(user_id) / except HTTPException: raise 404
UserCheckPassed(r) == ~r.raised

Submit(user_id, inp, resp) ==
    /\ loop = Idle
    /\ LET r == get_user(user_id, resp)
           task_id == FreshTaskId(tasks)
       IN  IF ~UserCheckPassed(r)
           THEN /\ loop' = [op |-> "submit", pc |-> "responded",
                            local |-> [calls |-> [get_user |-> resp]],
                            resp |-> [code |-> 404, detail |-> "User not found"]]
                /\ UNCHANGED <<tasks, heap, bg>>
           ELSE /\ Cardinality(DOMAIN tasks) < MaxTasks
                /\ bg' = Put(bg, task_id, ScheduledTask(user_id, inp))
                /\ tasks' = Put(tasks, task_id, <<task_id, 1>>)
                /\ heap' = Put(heap, <<task_id, 1>>, AcceptedEntry)
                /\ loop' = [op |-> "submit", pc |-> "responded",
                            local |-> [calls |-> [get_user |-> resp], task_id |-> task_id],
                            resp |-> [code |-> 202,
                                      body |-> [task_id |-> task_id, status |-> "accepted"]]]

\* the response of the running handler is sent, the loop takes the next request
Respond ==
    /\ loop.pc = "responded"
    /\ loop' = Idle
    /\ heap' = Collect(heap, tasks, loop')
    /\ UNCHANGED <<tasks, bg>>

\* ---------------------------------------------- generate_recommendations_async
\* tasks[task_id] = {"status": "processing", "progress": 0.1}
PipelineStart(task_id) ==
    /\ task_id \in DOMAIN bg
    /\ bg[task_id].pc = "scheduled"
    /\ ResponseSent(task_id)
    /\ tasks' = Put(tasks, task_id, NextRef(tasks, task_id))
    /\ heap' = Collect(Put(heap, NextRef(tasks, task_id), ProcessingEntry), tasks', loop)
    /\ bg' = [bg EXCEPT ![task_id].pc = "sleep"]
    /\ UNCHANGED loop

\* time.sleep(2); tasks[task_id]["progress"] = 0.5
PipelineProgress(task_id) ==
    /\ task_id \in DOMAIN bg
    /\ bg[task_id].pc = "sleep"
    /\ heap' = [heap EXCEPT ![tasks[task_id]] = Put(@, "progress", 5)]
    /\ bg' = [bg EXCEPT ![task_id].pc = "engine"]
    /\ UNCHANGED <<tasks, loop>>

\* engine.generate_recommendations(user_id, destination, vibes, budget) as one
\* step of the pipeline: the two threads write only locals of the call, so
\* nothing outside the call sees their interleaving.  ur, pr, cr, ir are what
\* GET /users/{id}, /users/{id}/preferences, /pois and /cities/{city} come
\* back with
EngineCall(user_id, destination, vibes, budget, ur, pr, cr, ir) ==
    LET r0 == NewRun(user_id, destination, vibes, budget)
        r1 == fetch_user_data(r0, ur)
        r2 == IF r1.upc = "done" THEN r1 ELSE fetch_user_data(r1, pr)
        r3 == fetch_catalog_data(r2, cr)
        r4 == IF r3.cpc = "done" THEN r3 ELSE fetch_catalog_data(r3, ir)
    IN  generate_recommendations(r4)

\* the dict the pipeline stores once the engine call is over
TerminalEntry(r) == IF r.raised THEN FailedEntry(r.exc) ELSE CompletedEntry(r.value)

\* a pipeline without its `except Exception`: a failed engine call ends the
\* task and nothing is written
PipelineFinish_uncaught(task_id, ur, pr, cr, ir) ==
    /\ task_id \in DOMAIN bg
    /\ bg[task_id].pc = "engine"
    /\ LET r == EngineCall(bg[task_id].user_id, bg[task_id].destination,
                           bg[task_id].vibes, bg[task_id].budget, ur, pr, cr, ir)
       IN  IF r.raised
           THEN UNCHANGED <<tasks, heap>>
           ELSE /\ tasks' = Put(tasks, task_id, NextRef(tasks, task_id))
                /\ heap' = Collect(Put(heap, NextRef(tasks, task_id), TerminalEntry(r)),
                                   tasks', loop)
    /\ bg' = [bg EXCEPT ![task_id].pc = "done"]
    /\ UNCHANGED loop

\* result = engine.generate_recommendations(...) and the terminal write
PipelineFinish(task_id, ur, pr, cr, ir) ==
    /\ task_id \in DOMAIN bg
    /\ bg[task_id].pc = "engine"
    /\ tasks' = Put(tasks, task_id, NextRef(tasks, task_id))
    /\ heap' = Collect(Put(heap, NextRef(tasks, task_id),
                           TerminalEntry(EngineCall(bg[task_id].user_id,
                                                    bg[task_id].destination,
                                                    bg[task_id].vibes,
                                                    bg[task_id].budget,
                                                    ur, pr, cr, ir))),
                       tasks', loop)
    /\ bg' = [bg EXCEPT ![task_id].pc = "done"]
    /\ UNCHANGED loop

\* ------------------------------------------------------- get_recommendations
SyncStart(user_id, inp) ==
    /\ loop = Idle
    /\ loop' = [op |-> "sync", pc |-> "fanout",
                local |-> [run |-> NewRun(user_id, inp.destination,
                                          ParseVibes(inp.vibes), inp.budget)],
                resp |-> NoResp]
    /\ UNCHANGED <<tasks, heap, bg>>

SyncUserBranch(resp) ==
    /\ loop.op = "sync"
    /\ loop.pc = "fanout"
    /\ loop.local.run.upc # "done"
    /\ resp \in UserBranchResponses(loop.local.run)
    /\ loop' = [loop EXCEPT !.local.run = fetch_user_data(@, resp)]
    /\ UNCHANGED <<tasks, heap, bg>>

SyncCatalogBranch(resp) ==
    /\ loop.op = "sync"
    /\ loop.pc = "fanout"
    /\ loop.local.run.cpc # "done"
    /\ resp \in CatalogBranchResponses(loop.local.run)
    /\ loop' = [loop EXCEPT !.local.run = fetch_catalog_data(@, resp)]
    /\ UNCHANGED <<tasks, heap, bg>>

\* the response of get_recommendations for the outcome r of the engine call
SyncResponse(run, r) ==
    IF r.raised
    THEN [code |-> r.exc.status_code, detail |-> r.exc.detail]
    ELSE [code |-> 200,
          body |-> [user_id |-> run.user_id,
                    destination |-> DestinationArg(run.destination),
                    recommendations |-> r.value.recommendations,
                    user_preferences |-> r.value.user_preferences,
                    catalog_data |-> r.value.catalog_data]]

SyncFinish ==
    /\ loop.op = "sync"
    /\ loop.pc = "fanout"
    /\ Joined(loop.local.run)
    /\ LET r == generate_recommendations(loop.local.run)
       IN  loop' = [loop EXCEPT !.pc = "responded",
                                !.local = IF r.raised THEN @ ELSE Put(@, "result", r.value),
                                !.resp = SyncResponse(loop.local.run, r)]
    /\ UNCHANGED <<tasks, heap, bg>>

\* ----------------------------------------------------- get_async_task_status
\* a status query that takes a job without progress for a missing one
PollGet_falsy(task_id) ==
    /\ loop = Idle
    /\ IF task_id \in DOMAIN tasks /\ Get(Entry(task_id), "progress", 0) # 0
       THEN loop' = [op |-> "poll", pc |-> "status",
                     local |-> [task_id |-> task_id, ref |-> tasks[task_id]],
                     resp |-> NoResp]
       ELSE loop' = [op |-> "poll", pc |-> "responded", local |-> [task_id |-> task_id],
                     resp |-> [code |-> 404, detail |-> "Task not found"]]
    /\ UNCHANGED <<tasks, heap, bg>>

\* task = tasks.get(task_id); if not task: raise HTTPException(404)
PollGet(task_id) ==
    /\ loop = Idle
    /\ IF task_id \in DOMAIN tasks
       THEN loop' = [op |-> "poll", pc |-> "status",
                     local |-> [task_id |-> task_id, ref |-> tasks[task_id]],
                     resp |-> NoResp]
       ELSE loop' = [op |-> "poll", pc |-> "responded", local |-> [task_id |-> task_id],
                     resp |-> [code |-> 404, detail |-> "Task not found"]]
    /\ UNCHANGED <<tasks, heap, bg>>

\* status=task["status"]
PollReadStatus ==
    /\ loop.op = "poll"
    /\ loop.pc = "status"
    /\ loop' = [loop EXCEPT !.pc = "result",
                            !.local = Put(@, "status", heap[loop.local.ref]["status"])]
    /\ UNCHANGED <<tasks, heap, bg>>

\* a status query that looks the result up in the registry again
PollReadResult_reread ==
    /\ loop.op = "poll"
    /\ loop.pc = "result"
    /\ loop' = [loop EXCEPT !.pc = "progress",
                            !.local = Put(@, "result", Opt(Entry(loop.local.task_id), "result"))]
    /\ UNCHANGED <<tasks, heap, bg>>

\* result=task.get("result")
PollReadResult ==
    /\ loop.op = "poll"
    /\ loop.pc = "result"
    /\ loop' = [loop EXCEPT !.pc = "progress",
                            !.local = Put(@, "result", Opt(heap[loop.local.ref], "result"))]
    /\ UNCHANGED <<tasks, heap, bg>>

\* a status query that drops a finished job from the registry once it has
\* been read
PollReadProgress_evict ==
    /\ loop.op = "poll"
    /\ loop.pc = "progress"
    /\ loop' = [loop EXCEPT
                   !.pc = "responded",
                   !.local = [task_id |-> loop.local.task_id],
                   !.resp = [code |-> 200,
                             body |-> [task_id |-> loop.local.task_id,
                                       status |-> loop.local.status,
                                       result |-> loop.local.result,
                                       progress |-> Get(heap[loop.local.ref], "progress", 0)]]]
    /\ tasks' = IF loop.local.status \in {"completed", "failed"}
                THEN [j \in DOMAIN tasks \ {loop.local.task_id} |-> tasks[j]]
                ELSE tasks
    /\ heap' = Collect(heap, tasks', loop')
    /\ UNCHANGED bg

\* progress=task.get("progress", 0.0), and the response is built
PollReadProgress ==
    /\ loop.op = "poll"
    /\ loop.pc = "progress"
    /\ loop' = [loop EXCEPT
                   !.pc = "responded",
                   !.local = [task_id |-> loop.local.task_id],
                   !.resp = [code |-> 200,
                             body |-> [task_id |-> loop.local.task_id,
                                       status |-> loop.local.status,
                                       result |-> loop.local.result,
                                       progress |-> Get(heap[loop.local.ref], "progress", 0)]]]
    /\ heap' = Collect(heap, tasks, loop')
    /\ UNCHANGED <<tasks, bg>>

\* ---------------------------------------------------------------- behaviours
\* the asynchronous job machinery: submission, background pipeline, status query
NextAsync ==
    \/ \E user_id \in UserIds, inp \in RequestInputs, resp \in UserResponses :
          Submit(user_id, inp, resp)
    \/ Respond
    \/ \E task_id \in TaskIds : PipelineStart(task_id)
    \/ \E task_id \in TaskIds : PipelineProgress(task_id)
    \/ \E task_id \in TaskIds, ur \in UserResponses, pr \in PrefsResponses,
           cr \in PoisResponses, ir \in CityResponses :
          PipelineFinish(task_id, ur, pr, cr, ir)
    \/ \E task_id \in PollIds : PollGet(task_id)
    \/ PollReadStatus
    \/ PollReadResult
    \/ PollReadProgress

\* the synchronous query with its two fan-out threads
NextSync ==
    \/ \E user_id \in UserIds, inp \in RequestInputs : SyncStart(user_id, inp)
    \/ \E resp \in UserResponses \cup PrefsResponses : SyncUserBranch(resp)
    \/ \E resp \in PoisResponses \cup CityResponses : SyncCatalogBranch(resp)
    \/ SyncFinish
    \/ Respond

Next == NextAsync \/ NextSync

Spec == Init /\ [][Next]_vars

\* the job registry on its own: the synchronous query never touches it
SpecAsync == Init /\ [][NextAsync]_vars

\* the synchronous query on its own
SpecSync == Init /\ [][NextSync]_vars

\* ------------------------------------------------------ RecommendationService
\* truthiness of an optional number: None and 0 are falsy
TruthyNum(o) == o # <<>> /\ o[1] # 0

\* [v.strip() for v in s.split(",") if v.strip()]; a string is given by its
\* comma-separated fragments, "" by the one empty fragment
SplitTags(frags) ==
    LET kept == SelectSeq(frags, LAMBDA f : Strip(f) # "")
    IN  [i \in 1..Len(kept) |-> Strip(kept[i])]

\* RecommendationService._extract_poi_tags
extract_poi_tags(poi) ==
    ToSet(SplitTags(Get(poi, "vibes", <<"">>))
          \o SplitTags(Get(poi, "activities", <<"">>))
          \o SplitTags(Get(poi, "food", <<"">>)))

\* RecommendationService._compute_score, times ScoreScale
compute_score(poi, request, user_profile) ==
    LET poi_tags == extract_poi_tags(poi)
        user_tags == ToSet(Get(user_profile, "preferred_vibes", <<>>))
                     \cup ToSet(Get(user_profile, "favorite_foods", <<>>))
                     \cup ToSet(Get(user_profile, "favorite_activities", <<>>))
        request_vibes == ToSet(request.vibes)
        user_spending == Get(user_profile, "spending_preference", NoneStr)
        daily_budget == Opt(user_profile, "daily_budget_limit")
    IN  Cardinality(poi_tags \cap user_tags) * 2 * ScoreScale
        + Cardinality(poi_tags \cap request_vibes) * ScoreScale
        + (IF Truthy(user_spending) /\ Get(poi, "spending", NoneStr) = user_spending
           THEN 3 * ScoreScale ELSE 0)
        + (IF /\ TruthyNum(daily_budget)
              /\ TruthyNum(Opt(poi, "budget"))
              /\ poi.budget <= daily_budget[1]
           THEN 2 * ScoreScale ELSE 0)
        + Get(poi, "rating", 0) * 2

\* the fallback profile of an anonymous request; a key that holds None reads
\* through .get like a missing key, so daily_budget_limit is left out
DefaultProfile ==
    [preferred_vibes |-> <<>>, favorite_activities |-> <<>>,
     favorite_foods |-> <<>>, spending_preference |-> NoneStr]

\* user_profile = user_profile or {...}
ProfileOrDefault(user_profile) ==
    IF user_profile = EmptyDict THEN DefaultProfile ELSE user_profile

\* a loop body that appends every poi, whatever its score
score_iteration_keepAll(scored_pois, poi, request, user_profile) ==
    Append(scored_pois, Put(poi, "score", compute_score(poi, request, user_profile)))

\* one iteration of `for poi in pois_data`
score_iteration(scored_pois, poi, request, user_profile) ==
    LET score == compute_score(poi, request, user_profile)
    IN  IF score > 0 THEN Append(scored_pois, Put(poi, "score", score))
        ELSE scored_pois

\* the loop over pois_data
RECURSIVE ScoreLoop(_, _, _, _)
ScoreLoop(scored_pois, pois, request, user_profile) ==
    IF pois = <<>> THEN scored_pois
    ELSE ScoreLoop(score_iteration(scored_pois, Head(pois), request, user_profile),
                   Tail(pois), request, user_profile)

\* POI(**p): the fields of the model are kept, every other key is dropped
POIFields == {"id", "name", "description", "tags", "budget", "location",
              "coordinates", "rating", "price_level"}
POI(p) == [k \in (DOMAIN p) \cap POIFields |-> p[k]]

\* the itinerary of a request: None unless days > 1, else one entry per day
Itinerary(request) ==
    IF request.days > 1 THEN <<[d \in 1..request.days |-> "day"]>> ELSE <<>>

\* ------------------------------------------------------- scoring inputs
\* rows of the pois query and elements of the catalog's answer get their
\* identifier from their place in the list
WithIds(pois) == [i \in 1..Len(pois) |-> Put(pois[i], "id", i)]

Repeat(x, n) == [i \in 1..n |-> x]

\* candidate lists: a run of equal candidates that stops short of the top
\* five or of the scan limit, or is empty, followed by up to MaxTail
\* candidates of any kind
Fills == {0, TopN - 1, ScanLimit - 1}
CandidateLists(fill, kinds) ==
    {WithIds(Repeat(fill, n) \o tail) :
        n \in Fills, tail \in UNION {[1..m -> kinds] : m \in 0..MaxTail}}

\* rows for RecommendationService: no tags and no rating; tags, spending,
\* budget and rating; a budget of 0
Row0 == [vibes |-> <<"">>, activities |-> <<" ">>, food |-> <<"">>]
Row1 == [vibes |-> <<"art", " ", " coffee">>, activities |-> <<"">>, food |-> <<"">>,
         spending |-> "low", budget |-> 3, rating |-> 4]
Row2 == [vibes |-> <<"history ">>, activities |-> <<"">>, food |-> <<"">>,
         spending |-> "high", budget |-> 0, rating |-> 2]
Rows == {Row0, Row1, Row2}

\* profiles: anonymous, one with interests, spending and a budget limit, one
\* with a budget limit of 0 and no spending preference
Profiles ==
    { EmptyDict,
      [preferred_vibes |-> <<"art">>, favorite_foods |-> <<"coffee">>,
       favorite_activities |-> <<>>, spending_preference |-> "low",
       daily_budget_limit |-> 5],
      [preferred_vibes |-> <<>>, favorite_foods |-> <<>>,
       favorite_activities |-> <<>>, spending_preference |-> NoneStr,
       daily_budget_limit |-> 0] }

\* RecommendationRequest
ServiceRequests ==
    { [user_id |-> "u1", destination |-> "paris", vibes |-> <<>>,
       budget |-> "low", days |-> 1],
      [user_id |-> "u1", destination |-> "paris", vibes |-> <<"history", "art">>,
       budget |-> "low", days |-> 2] }

\* arguments of _compute_recommendations: vibes and budget
EngineRequests ==
    { [vibes |-> <<>>, budget |-> NoneStr], [vibes |-> <<"art">>, budget |-> "low"] }

\* a call of RecommendationService.get_recommendations after the pois query,
\* or a call of RecommendationEngine._compute_recommendations
InitScore ==
    /\ tasks = EmptyDict
    /\ heap = EmptyDict
    /\ bg = EmptyDict
    /\ \/ \E pois_data \in CandidateLists(Row2, Rows), request \in ServiceRequests,
              user_profile \in Profiles :
              loop = [op |-> "recommend", pc |-> "score",
                      local |-> [pois_data |-> pois_data, request |-> request,
                                 user_profile |-> user_profile],
                      resp |-> NoResp]
       \/ \E pois \in CandidateLists(Poi3, {Poi1, Poi2, Poi3}), request \in EngineRequests :
              loop = [op |-> "compute", pc |-> "compute",
                      local |-> [data |-> [pois |-> pois], vibes |-> request.vibes,
                                 budget |-> request.budget],
                      resp |-> NoResp]

\* user_profile = user_profile or {...}; for poi in pois_data: ...
ServiceScore ==
    /\ loop.op = "recommend"
    /\ loop.pc = "score"
    /\ LET user_profile == ProfileOrDefault(loop.local.user_profile)
       IN  loop' = [loop EXCEPT
                      !.pc = "sort",
                      !.local = Put(Put(@, "user_profile", user_profile), "scored_pois",
                                    ScoreLoop(<<>>, loop.local.pois_data,
                                              loop.local.request, user_profile))]
    /\ UNCHANGED <<tasks, heap, bg>>

\* scored_pois.sort(key=lambda x: x["score"], reverse=True)
ServiceSort ==
    /\ loop.op = "recommend"
    /\ loop.pc = "sort"
    /\ loop' = [loop EXCEPT !.pc = "top",
                            !.local = Put(@, "scored_pois",
                                          SortByScoreDesc(loop.local.scored_pois))]
    /\ UNCHANGED <<tasks, heap, bg>>

\* top_pois = [POI(**p) for p in scored_pois[:5]], the itinerary, the saved
\* record and the response
ServiceTop ==
    /\ loop.op = "recommend"
    /\ loop.pc = "top"
    /\ LET top == Take(loop.local.scored_pois, TopN)
           top_pois == [i \in 1..Len(top) |-> POI(top[i])]
           itinerary == Itinerary(loop.local.request)
       IN  loop' = [loop EXCEPT
                      !.pc = "responded",
                      !.local = Put(@, "saved",
                                    [user_id |-> loop.local.request.user_id,
                                     destination |-> loop.local.request.destination,
                                     vibes |-> loop.local.request.vibes,
                                     budget |-> loop.local.request.budget,
                                     pois |-> top_pois, itinerary |-> itinerary]),
                      !.resp = [code |-> 200,
                                body |-> [user_id |-> loop.local.request.user_id,
                                          destination |-> loop.local.request.destination,
                                          pois |-> top_pois, itinerary |-> itinerary]]]
    /\ UNCHANGED <<tasks, heap, bg>>

\* recommendations = self._compute_recommendations(results, vibes, budget)
EngineCompute ==
    /\ loop.op = "compute"
    /\ loop.pc = "compute"
    /\ loop' = [loop EXCEPT
                   !.pc = "responded",
                   !.resp = [code |-> 200,
                             body |-> compute_recommendations(loop.local.data,
                                                              loop.local.vibes,
                                                              loop.local.budget)]]
    /\ UNCHANGED <<tasks, heap, bg>>

NextScore ==
    \/ ServiceScore
    \/ ServiceSort
    \/ ServiceTop
    \/ EngineCompute

\* the two scoring routines on their own, over the scoring inputs
SpecScore == InitScore /\ [][NextScore]_vars

\* the job registry when responses get sent and every worker thread that
\* runs a background task keeps running: time.sleep(2) ends, and the engine
\* call returns or raises because each requests.get has timeout=5.  The
\* engine step is enabled exactly while the task is at "engine", so its
\* weak fairness is stated on the position of the task
SpecAsyncFair ==
    /\ SpecAsync
    /\ WF_vars(Respond)
    /\ \A task_id \in TaskIds :
          /\ WF_vars(PipelineStart(task_id))
          /\ WF_vars(PipelineProgress(task_id))
          /\ []<>(task_id \notin DOMAIN bg \/ bg[task_id].pc # "engine")

\* ------------------------------------------------------------------- claims
Terminal == {"completed", "failed"}

\* the status of the entry of task_id after the step
StatusAfter(task_id) == heap'[tasks'[task_id]]["status"]

\* C1: the statuses stored for a job follow accepted -> processing ->
\* (completed | failed) with no state skipped: an entry is created as accepted,
\* the job is still accepted when the pipeline makes its first write, that
\* write sets processing, and completed or failed is only written over
\* processing.
C1_StatusOrder ==
    [][\A j \in DOMAIN tasks' :
          IF j \notin DOMAIN tasks
          THEN StatusAfter(j) = "accepted"
          ELSE /\ \/ StatusAfter(j) = Entry(j).status
                  \/ Entry(j).status = "accepted" /\ StatusAfter(j) = "processing"
                  \/ Entry(j).status = "processing" /\ StatusAfter(j) \in Terminal
               /\ (bg[j].pc = "scheduled" /\ bg'[j].pc # "scheduled")
                    => (Entry(j).status = "accepted" /\ StatusAfter(j) = "processing")]_vars

\* a job that went through the three writes and completed
C1_Witness ==
    \E j \in DOMAIN tasks : Entry(j).status = "completed" /\ tasks[j] = <<j, 3>>

\* C2: once an entry is completed or failed no step changes or removes it,
\* and a status query answered for a completed job returns the status, the
\* progress and the result of that entry.
C2_TerminalFrozen ==
    /\ [][\A j \in DOMAIN tasks :
             Entry(j).status \in Terminal
                => (j \in DOMAIN tasks' /\ heap'[tasks'[j]] = Entry(j))]_vars
    /\ [](loop.op = "poll" /\ loop.pc = "responded" /\ loop.resp.code = 200
             /\ loop.resp.body.status = "completed"
           => /\ loop.resp.body.task_id \in DOMAIN tasks
              /\ Entry(loop.resp.body.task_id).status = "completed"
              /\ loop.resp.body.progress = Entry(loop.resp.body.task_id).progress
              /\ loop.resp.body.result = <<Entry(loop.resp.body.task_id).result>>)

\* a status query answered with a completed job
C2_Witness ==
    /\ loop.op = "poll" /\ loop.pc = "responded" /\ loop.resp.code = 200
    /\ loop.resp.body.status = "completed"
    /\ loop.resp.body.result # <<>>

\* C3: a completed entry has a result and progress 1.0, a failed entry has an
\* error detail, an accepted or processing entry has neither.
C3_EntryShape ==
    \A j \in DOMAIN tasks :
        LET e == Entry(j)
        IN  /\ e.status = "completed"
                 => ("result" \in DOMAIN e /\ e.result # NoneDoc
                     /\ Get(e, "progress", 0) = ProgressScale)
            /\ e.status = "failed" => ("error" \in DOMAIN e /\ e.error # <<>>)
            /\ e.status \in {"accepted", "processing"}
                 => ("result" \notin DOMAIN e /\ "error" \notin DOMAIN e)

\* a failed job, with the error of its engine call
C3_Witness ==
    \E j \in DOMAIN tasks : Entry(j).status = "failed" /\ Entry(j).error[1] = 500

\* C5: a submission whose user check fails leaves the registry and the
\* scheduled pipelines as they were; one whose check succeeds adds exactly one
\* entry, under an identifier that was not in the registry, accepted with
\* progress 0.0, and returns while the pipeline has not started.
C5_Submission ==
    [][(loop.op = "idle" /\ loop'.op = "submit")
         => IF loop'.resp.code = 202
            THEN LET id == loop'.resp.body.task_id
                 IN  /\ loop'.local.calls.get_user = Http200
                     /\ id \notin DOMAIN tasks
                     /\ DOMAIN tasks' = DOMAIN tasks \cup {id}
                     /\ \A j \in DOMAIN tasks : tasks'[j] = tasks[j] /\ heap'[tasks'[j]] = Entry(j)
                     /\ heap'[tasks'[id]] = [status |-> "accepted", progress |-> 0]
                     /\ DOMAIN bg' = DOMAIN bg \cup {id}
                     /\ bg'[id].pc = "scheduled"
            ELSE /\ loop'.local.calls.get_user # Http200
                 /\ UNCHANGED <<tasks, heap, bg>>]_vars

\* a submission answered 202 whose job is accepted and not started
C5_Witness ==
    /\ loop.op = "submit" /\ loop.pc = "responded" /\ loop.resp.code = 202
    /\ Entry(loop.resp.body.task_id).status = "accepted"
    /\ bg[loop.resp.body.task_id].pc = "scheduled"

\* the synchronous query has been answered
SyncResponded == loop.op = "sync" /\ loop.pc = "responded"

\* the answer is a client error
ClientError(resp) == resp.code \in 400..499

\* C4: a synchronous query for a user the User service does not know is
\* answered with a client error, and neither GET /pois nor GET /cities has
\* been called for it.
C4_EagerValidation ==
    (SyncResponded /\ loop.local.run.calls.get_user = HttpOther)
        => /\ ClientError(loop.resp)
           /\ "get_pois" \notin DOMAIN loop.local.run.calls
           /\ "get_city" \notin DOMAIN loop.local.run.calls

\* C6: the error check and scoring start only when both branches are done;
\* a step of one branch never moves the other; and when the query is answered
\* each branch has made every call its own outcome leads to, whatever the
\* other branch met.
C6_JoinBarrier ==
    /\ [][(loop.op = "sync" /\ loop.pc = "fanout" /\ loop'.pc = "responded")
             => (loop.local.run.upc = "done" /\ loop.local.run.cpc = "done")]_vars
    /\ [][(loop.op = "sync" /\ loop.pc = "fanout" /\ loop'.pc = "fanout")
             => /\ loop'.local.run.upc # loop.local.run.upc
                     => loop'.local.run.cpc = loop.local.run.cpc
                /\ loop'.local.run.cpc # loop.local.run.cpc
                     => loop'.local.run.upc = loop.local.run.upc]_vars
    /\ [](SyncResponded
            => LET calls == loop.local.run.calls
               IN  /\ {"get_user", "get_pois"} \subseteq DOMAIN calls
                   /\ calls.get_user = Http200 => "get_prefs" \in DOMAIN calls
                   /\ (calls.get_pois # Malformed /\ Truthy(loop.local.run.destination))
                        => "get_city" \in DOMAIN calls)

\* the user branch failed and the catalog branch still made both its calls
C6_Witness ==
    /\ SyncResponded
    /\ "user" \in DOMAIN loop.local.run.errors
    /\ "get_city" \in DOMAIN loop.local.run.calls

\* the branches that met a hard failure, from what the upstream calls came
\* back with
FailedBranches(calls) ==
    (IF calls.get_user # Http200 THEN {"user"} ELSE {})
    \cup (IF calls.get_pois = Malformed THEN {"catalog"} ELSE {})

Degraded == {HttpOther, Transport}

C9_Unavailable ==
    /\ (loop.op = "submit" /\ loop.pc = "responded"
          /\ loop.local.calls.get_user = Transport)
         => loop.resp.code = 503
    /\ (SyncResponded /\ loop.local.run.calls.get_user = Transport)
         => loop.resp.code = 503

\* C10: a synchronous query with a destination whose city lookup fails or is
\* answered non-200 is answered with a client error and no combined response
\* (stated for the queries nothing else fails in).
C10_DestinationValidation ==
    (/\ SyncResponded
     /\ FailedBranches(loop.local.run.calls) = {}
     /\ Truthy(loop.local.run.destination)
     /\ loop.local.run.calls.get_city \in Degraded)
        => (ClientError(loop.resp) /\ "body" \notin DOMAIN loop.resp)

\* the ranked list of a finished scoring call as identifiers and scores, and
\* the candidates it was given as identifiers
Scored == loop.op \in {"recommend", "compute"} /\ loop.pc = "responded"
Ranked ==
    IF loop.op = "recommend"
    THEN [i \in 1..Len(loop.resp.body.pois) |->
             [id |-> loop.resp.body.pois[i].id, score |-> loop.local.scored_pois[i].score]]
    ELSE [i \in 1..Len(loop.resp.body) |->
             [id |-> loop.resp.body[i].poi_id[1], score |-> loop.resp.body[i].score]]
Candidates ==
    IF loop.op = "recommend" THEN loop.local.pois_data ELSE loop.local.data.pois

\* the score of the k-th candidate
CandidateScore(k) ==
    IF loop.op = "recommend"
    THEN compute_score(loop.local.pois_data[k], loop.local.request, loop.local.user_profile)
    ELSE poi_score(loop.local.data.pois[k], loop.local.vibes, loop.local.budget, EmptyDict)

\* C12: the ranked list has at most 5 entries, scores do not increase along
\* it, entries of equal score keep the order of the candidate list, and no
\* candidate with a positive score that was left out scores higher than an
\* entry, or was left out of a list shorter than 5.
C12_Ranking ==
    Scored
        => /\ Len(Ranked) <= 5
           /\ \A i, j \in 1..Len(Ranked) :
                 i < j => /\ Ranked[i].score >= Ranked[j].score
                          /\ Ranked[i].score = Ranked[j].score => Ranked[i].id < Ranked[j].id
           /\ \A k \in 1..Len(Candidates) :
                 (CandidateScore(k) > 0 /\ \A i \in 1..Len(Ranked) : Ranked[i].id # k)
                    => /\ Len(Ranked) = 5
                       /\ \A i \in 1..Len(Ranked) : Ranked[i].score >= CandidateScore(k)

\* a candidate with no tags, no rating and no spending or budget match
ZeroCandidate(k) ==
    IF loop.op = "recommend"
    THEN LET poi == loop.local.pois_data[k]
         IN  /\ \A f \in {"vibes", "activities", "food"} :
                   \A i \in 1..Len(Get(poi, f, <<>>)) : Strip(poi[f][i]) = ""
             /\ Get(poi, "rating", 0) = 0
             /\ "spending" \notin DOMAIN poi
             /\ "budget" \notin DOMAIN poi
    ELSE LET poi == loop.local.data.pois[k]
         IN  /\ Get(poi, "tags", <<>>) = <<>>
             /\ Get(poi, "rating", 0) = 0
             /\ Get(poi, "budget", NoneStr) # loop.local.budget

\* C13: every entry of the ranked list has a score above zero, and a
\* candidate with no tags, no rating and no spending or budget match is not
\* in the list.
C13_PositiveOnly ==
    Scored
        => /\ \A i \in 1..Len(Ranked) : Ranked[i].score > 0
           /\ \A k \in 1..Len(Candidates) :
                 ZeroCandidate(k) => \A i \in 1..Len(Ranked) : Ranked[i].id # k

\* a list of fewer than 5 entries from candidates that had a score-0 one
C13_Witness ==
    /\ Scored
    /\ loop.op = "recommend"
    /\ Len(Ranked) \in 1..4
    /\ \E k \in 1..Len(Candidates) : ZeroCandidate(k)

\* the reference score of a candidate, times ScoreScale
ReferenceScore(poi, request, profile) ==
    LET candidateTags == extract_poi_tags(poi)
        userInterests == ToSet(Get(profile, "preferred_vibes", <<>>))
                         \cup ToSet(Get(profile, "favorite_foods", <<>>))
                         \cup ToSet(Get(profile, "favorite_activities", <<>>))
        spendingSet == Get(profile, "spending_preference", NoneStr) # NoneStr
        budgetsSet == "daily_budget_limit" \in DOMAIN profile /\ "budget" \in DOMAIN poi
    IN  2 * ScoreScale * Cardinality(candidateTags \cap userInterests)
        + ScoreScale * Cardinality(candidateTags \cap ToSet(request.vibes))
        + (IF spendingSet /\ Get(poi, "spending", NoneStr) = profile.spending_preference
           THEN 3 * ScoreScale ELSE 0)
        + (IF budgetsSet /\ poi.budget <= profile.daily_budget_limit
           THEN 2 * ScoreScale ELSE 0)
        + 2 * Get(poi, "rating", 0)

\* C14: once the candidates are scored, every kept candidate carries the
\* reference score, and every dropped one has a reference score of 0; no
\* candidate gets the spending term from a profile without a spending
\* preference.
C14_ReferenceScore ==
    (loop.op = "recommend" /\ loop.pc = "sort")
        => \A k \in 1..Len(loop.local.pois_data) :
              LET poi == loop.local.pois_data[k]
                  ref == ReferenceScore(poi, loop.local.request, loop.local.user_profile)
                  kept == {i \in 1..Len(loop.local.scored_pois) :
                              loop.local.scored_pois[i].id = k}
              IN  /\ kept = {} => ref <= 0
                  /\ \A i \in kept : loop.local.scored_pois[i].score = ref

\* C11: the result of a completed job is a result the synchronous query
\* computes for the same user, destination, vibes and budget and the same
\* upstream answers.
C11_SamePipeline ==
    \A j \in DOMAIN tasks :
        Entry(j).status = "completed"
            => \E ur \in UserResponses, pr \in PrefsResponses,
                  cr \in PoisResponses, ir \in CityResponses :
                  LET r == EngineCall(bg[j].user_id, bg[j].query.destination,
                                      ParseVibes(bg[j].query.vibes), bg[j].query.budget,
                                      ur, pr, cr, ir)
                  IN  ~r.raised /\ r.value = Entry(j).result

\* the tags of the candidate a ranking entry was made from
TagsOf(pois, rec) ==
    ToSet((pois[CHOOSE k \in 1..Len(pois) : <<pois[k].id>> = rec.poi_id]).tags)

\* C15: in an answered query, of two ranked candidates that agree on budget,
\* rating and matched vibes, one whose tags overlap the interests of the
\* fetched preferences scores strictly higher than one whose tags do not.
C15_ProfileUsed ==
    (SyncResponded /\ loop.resp.code = 200)
        => LET res == loop.local.result
               interests == ToSet(Get(res.user_preferences, "interests", <<>>))
               pois == res.catalog_data.pois
               recs == res.recommendations
           IN  \A a, b \in 1..Len(recs) :
                  (/\ recs[a].budget = recs[b].budget
                   /\ recs[a].rating = recs[b].rating
                   /\ recs[a].matching_tags = recs[b].matching_tags
                   /\ TagsOf(pois, recs[a]) \cap interests # {}
                   /\ TagsOf(pois, recs[b]) \cap interests = {})
                      => recs[a].score > recs[b].score

\* what a status query shows of an entry
View(status, progress, result) ==
    [status |-> status, progress |-> progress, result |-> result]

\* the views the job of task_id has offered so far: the k-th dict object of
\* a job is the accepted, the processing and the terminal one
HeldViews(task_id) ==
    LET gen == tasks[task_id][2]
        cur == Entry(task_id)
    IN  {View("accepted", 0, <<>>)}
        \cup (IF gen >= 2 THEN {View("processing", 1, <<>>)} ELSE {})
        \cup (IF gen >= 3 \/ (gen = 2 /\ cur.progress = 5)
              THEN {View("processing", 5, <<>>)} ELSE {})
        \cup (IF gen >= 3
              THEN {View(cur.status, Get(cur, "progress", 0), Opt(cur, "result"))}
              ELSE {})

\* C16: an answered status query shows a status, progress and result that
\* the job held together at one time: never completed without a result,
\* processing with a result, or failed with progress 1.0.
C16_Snapshot ==
    (loop.op = "poll" /\ loop.pc = "responded" /\ loop.resp.code = 200)
        => LET b == loop.resp.body
           IN  /\ View(b.status, b.progress, b.result) \in HeldViews(b.task_id)
               /\ b.status = "completed" => b.result # <<>>
               /\ b.status = "processing" => b.result = <<>>
               /\ b.status = "failed" => b.progress # ProgressScale

\* a query that took the processing entry and was answered after the
\* pipeline's later writes
C16_Witness ==
    /\ loop.op = "poll" /\ loop.pc = "responded" /\ loop.resp.code = 200
    /\ loop.resp.body.status = "processing"
    /\ loop.resp.body.progress = 5
    /\ Entry(loop.resp.body.task_id).status \in Terminal

\* C17: a status query for an identifier no submission returned is answered
\* 404 and changes nothing; one for a returned identifier is never answered
\* 404; a returned identifier stays in the registry.
C17_NotFound ==
    /\ [][(loop.op = "idle" /\ loop'.op = "poll")
             => IF loop'.local.task_id \in DOMAIN tasks
                THEN loop'.resp.code # 404
                ELSE loop'.resp.code = 404 /\ UNCHANGED <<tasks, heap, bg>>]_vars
    /\ [][DOMAIN tasks \subseteq DOMAIN tasks']_vars
    /\ []((loop.op = "submit" /\ loop.resp.code = 202)
             => loop.resp.body.task_id \in DOMAIN tasks)
    /\ []((loop.op = "poll" /\ loop.resp.code = 404)
             => loop.local.task_id \notin DOMAIN tasks)

\* an unknown identifier answered 404 while the registry holds a job
C17_Witness ==
    /\ loop.op = "poll" /\ loop.pc = "responded" /\ loop.resp.code = 404
    /\ DOMAIN tasks # {}
    /\ loop.local.task_id \notin DOMAIN tasks

\* C18: with responses sent and worker threads running, every job in the
\* registry reaches completed or failed.
C18_Terminates ==
    \A j \in TaskIds :
        (j \in DOMAIN tasks) ~> (j \in DOMAIN tasks /\ Entry(j).status \in Terminal)

\* a job whose engine call raised and whose pipeline ended with failed
C18_Witness ==
    \E j \in DOMAIN tasks :
        /\ bg[j].pc = "done"
        /\ Entry(j).status = "failed"
        /\ "error" \in DOMAIN Entry(j)

\* the progress a status query reports for an entry
Progress(e) == Get(e, "progress", 0)

\* C19: the progress reported for a job lies in [0.0, 1.0] and never
\* decreases, on the completing and on the failing path.
C19_ProgressMonotone ==
    [][\A j \in DOMAIN tasks :
          /\ Progress(heap'[tasks'[j]]) \in 0..ProgressScale
          /\ Progress(heap'[tasks'[j]]) >= Progress(Entry(j))]_vars

====
